---- MODULE Spec2Model ----
(***************************************************************************)
(* Model of ifc-import-comparison.py: the typed tree built from the IFC    *)
(* entities of a file (Project > Site > Building > Storey > element), the  *)
(* check_import methods that diff two such trees, and the                  *)
(* ComparisonReport that collects the additions and deletions.             *)
(***************************************************************************)
EXTENDS Integers, Sequences, FiniteSets, TLC

VARIABLES level, original_tree, import_tree, report, call, pc

vars == <<level, original_tree, import_tree, report, call, pc>>

(* Python's None *)
None == "None"

----------------------------------------------------------------------------
(* ifcopenshell: entity.is_a() is the entity's type name, entity.is_a(t)   *)
(* is true for the type itself and for every supertype of the schema.      *)

SchemaSupertype ==
    [IfcRoot |-> None,
     IfcObjectDefinition |-> "IfcRoot",
     IfcObject |-> "IfcObjectDefinition",
     IfcProject |-> "IfcObject",
     IfcProduct |-> "IfcObject",
     IfcSpatialStructureElement |-> "IfcProduct",
     IfcSite |-> "IfcSpatialStructureElement",
     IfcBuilding |-> "IfcSpatialStructureElement",
     IfcBuildingStorey |-> "IfcSpatialStructureElement",
     IfcElement |-> "IfcProduct",
     IfcBuildingElement |-> "IfcElement",
     IfcWall |-> "IfcBuildingElement",
     IfcDoor |-> "IfcBuildingElement",
     IfcFurnishingElement |-> "IfcElement",
     IfcDistributionElement |-> "IfcElement",
     IfcDistributionFlowElement |-> "IfcDistributionElement",
     IfcFlowSegment |-> "IfcDistributionFlowElement",
     IfcRelationship |-> "IfcRoot",
     IfcRelDefines |-> "IfcRelationship",
     IfcRelDefinesByProperties |-> "IfcRelDefines",
     IfcRelDefinesByType |-> "IfcRelDefines",
     IfcPropertyDefinition |-> "IfcRoot",
     IfcPropertySet |-> "IfcPropertyDefinition"]

RECURSIVE is_a(_, _)
is_a(type, name) ==
    IF type = name THEN TRUE
    ELSE IF type \notin DOMAIN SchemaSupertype THEN FALSE
    ELSE IF SchemaSupertype[type] = None THEN FALSE
    ELSE is_a(SchemaSupertype[type], name)

----------------------------------------------------------------------------
(* Storey.ALLOWED_TYPES and the classes the module defines (the names      *)
(* globals().get(comp_type) can find).                                     *)

ALLOWED_TYPES ==
    <<"IfcBeam", "IfcColumn", "IfcCovering", "IfcDistributionElement", "IfcDoor",
      "IfcMember", "IfcObject", "IfcOpening", "IfcPipe", "IfcRailing", "IfcRoof",
      "IfcSlab", "IfcSpace", "IfcStair", "IfcWall", "IfcWindow">>

LeafClasses ==
    {"IfcBeam", "IfcColumn", "IfcCovering", "IfcDistribution_Element", "IfcDoor",
     "IfcMember", "IfcObject", "IfcOpening", "IfcPipe", "IfcRailing", "IfcRoof",
     "IfcSlab", "IfcSpace", "IfcStair", "IfcWall", "IfcWindow"}

----------------------------------------------------------------------------
(* Sequence helpers for the nested for-loops of the builders.              *)

RECURSIVE Flatten(_)
Flatten(seqs) ==
    IF seqs = <<>> THEN <<>> ELSE Head(seqs) \o Flatten(Tail(seqs))

(* RelatedObjects / RelatedElements of every relation, in iteration order *)
RelatedOf(relations) ==
    Flatten([i \in 1..Len(relations) |-> relations[i].Related])

----------------------------------------------------------------------------
(* Tree Builder: Component.__init__ and the _init_* methods.               *)

PropertySet(definition) ==
    [cls |-> "PropertySet",
     entity_instance |-> definition,
     name |-> "PropertySet",
     entity_name |-> definition.Name,
     guid |-> definition.GlobalId,
     entity_type |-> definition.type,
     psets |-> <<>>,
     properties |-> None]

(* RelatingPropertyDefinition is an optional attribute: <<>> when unset, *)
(* <<definition>> otherwise                                             *)
_init_psets(entity) ==
    LET rels == SelectSeq(entity.IsDefinedBy,
                          LAMBDA r : /\ is_a(r.type, "IfcRelDefinesByProperties")
                                     /\ r.RelatingPropertyDefinition # <<>>)
    IN  [i \in 1..Len(rels) |-> PropertySet(rels[i].RelatingPropertyDefinition[1])]

Component(cls, entity, name) ==
    [cls |-> cls,
     entity_instance |-> entity,
     name |-> name,
     entity_name |-> entity.Name,
     guid |-> entity.GlobalId,
     entity_type |-> entity.type,
     psets |-> _init_psets(entity)]

(* the components one contained element yields: one per ALLOWED_TYPES     *)
(* entry the element is_a and that names a class of the module            *)
ElementComponents(element) ==
    LET hits == SelectSeq(ALLOWED_TYPES,
                          LAMBDA t : is_a(element.type, t) /\ t \in LeafClasses)
    IN  [i \in 1..Len(hits) |-> Component(hits[i], element, element.Name)]

_init_storey_elements(entity) ==
    LET els == RelatedOf(entity.ContainsElements)
    IN  Flatten([i \in 1..Len(els) |-> ElementComponents(els[i])])

Storey(entity, name) ==
    Component("Storey", entity, name) @@
        [components |-> _init_storey_elements(entity)]

_init_storeys(entity) ==
    LET objs == SelectSeq(RelatedOf(entity.IsDecomposedBy),
                          LAMBDA o : is_a(o.type, "IfcBuildingStorey"))
    IN  [i \in 1..Len(objs) |-> Storey(objs[i], objs[i].Name)]

Building(entity, name) ==
    Component("Building", entity, name) @@ [storeys |-> _init_storeys(entity)]

_init_buildings(entity) ==
    LET objs == SelectSeq(RelatedOf(entity.IsDecomposedBy),
                          LAMBDA o : is_a(o.type, "IfcBuilding"))
    IN  [i \in 1..Len(objs) |-> Building(objs[i], "Building")]

Site(entity, name) ==
    Component("Site", entity, name) @@ [buildings |-> _init_buildings(entity)]

_init_sites(entity) ==
    LET objs == SelectSeq(RelatedOf(entity.IsDecomposedBy),
                          LAMBDA o : is_a(o.type, "IfcSite"))
    IN  [i \in 1..Len(objs) |-> Site(objs[i], "Site")]

Project(entity, name) ==
    Component("Project", entity, name) @@ [sites |-> _init_sites(entity)]

----------------------------------------------------------------------------
(* ComparisonReport.  A record is the dict {'guid', 'entity_type'} with    *)
(* the key 'message' only when msg is not None; the message is a         *)
(* sequence of string parts, and NoMessage stands for the absent key.      *)

NoMessage == <<>>

EmptyReport == [additions |-> <<>>, deletions |-> <<>>]

ChangeRecord(guid, entity_type, msg) ==
    [guid |-> guid, entity_type |-> entity_type, message |-> msg]

add_addition(r, guid, entity_type, msg) ==
    [r EXCEPT !.additions = Append(@, ChangeRecord(guid, entity_type, msg))]

add_deletion(r, guid, entity_type, msg) ==
    [r EXCEPT !.deletions = Append(@, ChangeRecord(guid, entity_type, msg))]

(* variant: the detail is lost on the addition half *)
add_modification_NoDetail(r, guid, entity_type, msg) ==
    add_addition(add_deletion(r, guid, entity_type, msg), guid, entity_type, NoMessage)

add_modification(r, guid, entity_type, msg) ==
    add_addition(add_deletion(r, guid, entity_type, msg), guid, entity_type, msg)

----------------------------------------------------------------------------
(* The dict {s.guid: s for s in nodes}: a sequence of items in insertion   *)
(* order; a key seen again keeps its position and takes the later value.   *)

DictHas(d, k) == \E i \in 1..Len(d) : d[i].key = k

(* variant: positional pairing, the first item whatever its key *)
DictGet_First(d, k) == d[1].value

DictGet(d, k) == d[CHOOSE i \in 1..Len(d) : d[i].key = k].value

(* variant: a list of items, a repeated key is kept twice *)
DictSet_Append(d, k, v) == Append(d, [key |-> k, value |-> v])

DictSet(d, k, v) ==
    IF DictHas(d, k)
    THEN [i \in 1..Len(d) |-> IF d[i].key = k THEN [key |-> k, value |-> v] ELSE d[i]]
    ELSE Append(d, [key |-> k, value |-> v])

RECURSIVE GuidDictFrom(_, _)
GuidDictFrom(nodes, d) ==
    IF nodes = <<>> THEN d
    ELSE GuidDictFrom(Tail(nodes), DictSet(d, Head(nodes).guid, Head(nodes)))

GuidDict(nodes) == GuidDictFrom(nodes, <<>>)

----------------------------------------------------------------------------
(* Diff Engine: the check_import methods.  Each operator returns the       *)
(* report after the call.                                                  *)

NameMessage(name) == <<"Name : ", name>>

(* variant: the label is compared with the other side's entity name *)
ComponentCheckImport_EntityName(self, other, r) ==
    IF self.guid # other.guid
    THEN add_addition(add_deletion(r, self.guid, self.entity_type, NoMessage),
                      other.guid, self.entity_type, NoMessage)
    ELSE IF self.name # other.entity_name
    THEN add_addition(add_deletion(r, self.guid, self.entity_type, NoMessage),
                      self.guid, self.entity_type, NoMessage)
    ELSE r

ComponentCheckImport(self, other, r) ==
    IF self.guid # other.guid
    THEN add_addition(add_deletion(r, self.guid, self.entity_type, NoMessage),
                      other.guid, self.entity_type, NoMessage)
    ELSE IF self.name # other.name
    THEN add_addition(add_deletion(r, self.guid, self.entity_type, NoMessage),
                      self.guid, self.entity_type, NoMessage)
    ELSE r

(* Storey.check_import, first loop: components missing from the import *)
RECURSIVE StoreyDeletions(_, _, _)
StoreyDeletions(items, import_guid_map, r) ==
    IF items = <<>> THEN r
    ELSE LET guid == Head(items).key
             comp == Head(items).value
         IN  StoreyDeletions(Tail(items), import_guid_map,
                 IF ~DictHas(import_guid_map, guid)
                 THEN add_deletion(r, guid, comp.entity_type, NoMessage)
                 ELSE r)

(* Storey.check_import, second loop: new components and renamed ones *)
RECURSIVE StoreyAdditions(_, _, _)
StoreyAdditions(items, orig_guid_map, r) ==
    IF items = <<>> THEN r
    ELSE LET guid == Head(items).key
             comp == Head(items).value
         IN  StoreyAdditions(Tail(items), orig_guid_map,
                 IF ~DictHas(orig_guid_map, guid)
                 THEN add_addition(r, guid, comp.entity_type, NoMessage)
                 ELSE IF DictGet(orig_guid_map, guid).name # comp.name
                 THEN add_addition(
                          add_deletion(r, guid, comp.entity_type,
                                       NameMessage(DictGet(orig_guid_map, guid).name)),
                          guid, comp.entity_type, NameMessage(comp.name))
                 ELSE r)

StoreyCheckImport(self, other, r) ==
    LET orig_guid_map == GuidDict(self.components)
        import_guid_map == GuidDict(other.components)
        r0 == ComponentCheckImport(self, other, r)
        r1 == StoreyDeletions(orig_guid_map, import_guid_map, r0)
    IN  StoreyAdditions(import_guid_map, orig_guid_map, r1)

(* Building.check_import, first loop *)
RECURSIVE BuildingOriginals(_, _, _)
BuildingOriginals(items, import_storeys, r) ==
    IF items = <<>> THEN r
    ELSE LET guid == Head(items).key
             storey == Head(items).value
         IN  BuildingOriginals(Tail(items), import_storeys,
                 IF DictHas(import_storeys, guid)
                 THEN StoreyCheckImport(storey, DictGet(import_storeys, guid), r)
                 ELSE add_deletion(r, guid, storey.entity_type, NoMessage))

(* variant: the second loop is missing *)
ChildAdditions_Skipped(items, originals, r) == r

(* second loop of Site.check_import and Building.check_import: the *)
(* addition carries the type of the imported child                 *)
RECURSIVE ChildAdditions(_, _, _)
ChildAdditions(items, originals, r) ==
    IF items = <<>> THEN r
    ELSE LET guid == Head(items).key
             child == Head(items).value
         IN  ChildAdditions(Tail(items), originals,
                 IF ~DictHas(originals, guid)
                 THEN add_addition(r, guid, child.entity_type, NoMessage)
                 ELSE r)

BuildingCheckImport(self, other, r) ==
    LET original_storeys == GuidDict(self.storeys)
        import_storeys == GuidDict(other.storeys)
        r0 == ComponentCheckImport(self, other, r)
        r1 == BuildingOriginals(original_storeys, import_storeys, r0)
    IN  ChildAdditions(import_storeys, original_storeys, r1)

(* Site.check_import, first loop *)
RECURSIVE SiteOriginals(_, _, _)
SiteOriginals(items, import_buildings, r) ==
    IF items = <<>> THEN r
    ELSE LET guid == Head(items).key
             building == Head(items).value
         IN  SiteOriginals(Tail(items), import_buildings,
                 IF DictHas(import_buildings, guid)
                 THEN BuildingCheckImport(building, DictGet(import_buildings, guid), r)
                 ELSE add_deletion(r, guid, building.entity_type, NoMessage))

SiteCheckImport(self, other, r) ==
    LET original_buildings == GuidDict(self.buildings)
        import_buildings == GuidDict(other.buildings)
        r0 == ComponentCheckImport(self, other, r)
        r1 == SiteOriginals(original_buildings, import_buildings, r0)
    IN  ChildAdditions(import_buildings, original_buildings, r1)

(* Project.check_import, first loop: the deletion carries the project's *)
(* own entity_type                                                      *)
RECURSIVE ProjectOriginals(_, _, _, _)
ProjectOriginals(items, import_sites, self_type, r) ==
    IF items = <<>> THEN r
    ELSE LET guid == Head(items).key
             site == Head(items).value
         IN  ProjectOriginals(Tail(items), import_sites, self_type,
                 IF DictHas(import_sites, guid)
                 THEN SiteCheckImport(site, DictGet(import_sites, guid), r)
                 ELSE add_deletion(r, guid, self_type, NoMessage))

(* Project.check_import, second loop: the addition carries the project's *)
(* own entity_type                                                       *)
RECURSIVE ProjectAdditions(_, _, _, _)
ProjectAdditions(items, original_sites, self_type, r) ==
    IF items = <<>> THEN r
    ELSE LET guid == Head(items).key
         IN  ProjectAdditions(Tail(items), original_sites, self_type,
                 IF ~DictHas(original_sites, guid)
                 THEN add_addition(r, guid, self_type, NoMessage)
                 ELSE r)

ProjectCheckImport(self, other, r) ==
    LET original_sites == GuidDict(self.sites)
        import_sites == GuidDict(other.sites)
        r0 == ComponentCheckImport(self, other, r)
        r1 == ProjectOriginals(original_sites, import_sites, self.entity_type, r0)
    IN  ProjectAdditions(import_sites, original_sites, self.entity_type, r1)

----------------------------------------------------------------------------
(* Input entities: what ifcopenshell hands to the builders.  A relation is *)
(* the record of its RelatedObjects / RelatedElements.                     *)

(* Bounds: the longest child sequence at each level, the longest child    *)
(* sequence below the compared pair's children (MaxBelow), and the longest *)
(* record sequence of a report on its own.  Sibling identities come from   *)
(* pools of at most two GlobalIds, which also caps the sequences.          *)
MaxSites == 2
MaxBuildings == 2
MaxStoreys == 2
MaxElems == 2
MaxBelow == 1
MaxRecords == 2

Names == {"a", "b"}
Heights == {3, 4}

Relations(related) ==
    IF related = <<>> THEN <<>> ELSE <<[Related |-> related]>>

PropertyDefinition(height) ==
    [GlobalId |-> "Q1", Name |-> "Pset", type |-> "IfcPropertySet",
     Height |-> height]

ElementEntity(guid, name, type, height) ==
    [GlobalId |-> guid, Name |-> name, type |-> type,
     IsDecomposedBy |-> <<>>, ContainsElements |-> <<>>,
     IsDefinedBy |-> <<[type |-> "IfcRelDefinesByProperties",
                        RelatingPropertyDefinition |-> <<PropertyDefinition(height)>>]>>]

StoreyEntity(guid, name, elements) ==
    [GlobalId |-> guid, Name |-> name, type |-> "IfcBuildingStorey",
     IsDecomposedBy |-> <<>>, ContainsElements |-> Relations(elements),
     IsDefinedBy |-> <<>>]

SpatialEntity(guid, name, type, children) ==
    [GlobalId |-> guid, Name |-> name, type |-> type,
     IsDecomposedBy |-> Relations(children), ContainsElements |-> <<>>,
     IsDefinedBy |-> <<>>]

(* the sequences of at most n entities of S with pairwise different GlobalId *)
RECURSIVE DistinctSeqs(_, _)
DistinctSeqs(S, n) ==
    IF n = 0 THEN {<<>>}
    ELSE LET shorter == DistinctSeqs(S, n - 1)
         IN  shorter \cup
             {Append(q, x) : <<q, x>> \in
                 {<<q, x>> \in shorter \X S :
                     /\ Len(q) = n - 1
                     /\ \A i \in 1..Len(q) : q[i].GlobalId # x.GlobalId}}

ElementSet(guids, names, types, heights) ==
    {ElementEntity(g, n, t, h) : g \in guids, n \in names, t \in types, h \in heights}

StoreySet(guids, names, elementSeqs) ==
    {StoreyEntity(g, n, es) : g \in guids, n \in names, es \in elementSeqs}

SpatialSet(guids, names, type, childSeqs) ==
    {SpatialEntity(g, n, type, cs) : g \in guids, n \in names, cs \in childSeqs}

(* a storey and its elements in full *)
StoreyInputs ==
    StoreySet({"T1"}, {"a"},
        DistinctSeqs(ElementSet({"G1", "G2"}, Names, {"IfcWall", "IfcDoor"}, Heights),
                     MaxElems))

(* a building and its storeys, each with at most MaxBelow element *)
BuildingInputs ==
    SpatialSet({"B1"}, {"a"}, "IfcBuilding",
        DistinctSeqs(
            StoreySet({"T1", "T2"}, Names,
                DistinctSeqs(ElementSet({"G1"}, Names, {"IfcWall"}, {3}), MaxBelow)),
            MaxStoreys))

(* a site and its buildings, each a chain of at most MaxBelow children *)
SiteInputs ==
    SpatialSet({"S1"}, {"a"}, "IfcSite",
        DistinctSeqs(
            SpatialSet({"B1", "B2"}, {"a"}, "IfcBuilding",
                DistinctSeqs(
                    StoreySet({"T1"}, Names,
                        DistinctSeqs(ElementSet({"G1"}, {"a"}, {"IfcWall"}, {3}),
                                     MaxBelow)),
                    MaxBelow)),
            MaxBuildings))

(* a project and its sites, each a chain of at most MaxBelow children *)
ProjectInputs ==
    SpatialSet({"P1", "P2"}, Names, "IfcProject",
        DistinctSeqs(
            SpatialSet({"S1", "S2"}, {"a"}, "IfcSite",
                DistinctSeqs(
                    SpatialSet({"B1"}, {"a"}, "IfcBuilding",
                        DistinctSeqs(
                            StoreySet({"T1"}, {"a"},
                                DistinctSeqs(
                                    ElementSet({"G1"}, {"a"}, {"IfcWall"}, {3}),
                                    MaxBelow)),
                            MaxBelow)),
                    MaxBelow)),
            MaxSites))

----------------------------------------------------------------------------
(* State.  level names the class whose check_import is called;             *)
(* original_tree and import_tree are the two nodes of the call (self and   *)
(* other), built from the entities; report is the ComparisonReport.        *)

NoCall == [op |-> None, guid |-> None, entity_type |-> None, msg |-> NoMessage]

(* the trees the builders make of the inputs *)
ProjectTrees == {Project(e, "Project") : e \in ProjectInputs}
SiteTrees == {Site(e, "Site") : e \in SiteInputs}
BuildingTrees == {Building(e, "Building") : e \in BuildingInputs}
StoreyTrees == {Storey(e, e.Name) : e \in StoreyInputs}

(* run(): the two Project trees of the two files, and the recursive calls  *)
(* of check_import, which pair children of equal guid.                     *)
Init ==
    /\ pc = "built"
    /\ report = EmptyReport
    /\ call = NoCall
    /\ \/ /\ level = "Project"
          /\ original_tree \in ProjectTrees
          /\ import_tree \in ProjectTrees
       \/ /\ level = "Site"
          /\ original_tree \in SiteTrees
          /\ import_tree \in SiteTrees
       \/ /\ level = "Building"
          /\ original_tree \in BuildingTrees
          /\ import_tree \in BuildingTrees
       \/ /\ level = "Storey"
          /\ original_tree \in StoreyTrees
          /\ import_tree \in StoreyTrees

CheckCall == [NoCall EXCEPT !.op = "check_import"]

ProjectCheck ==
    /\ pc = "built" /\ level = "Project"
    /\ report' = ProjectCheckImport(original_tree, import_tree, report)
    /\ call' = CheckCall
    /\ pc' = "done"
    /\ UNCHANGED <<level, original_tree, import_tree>>

SiteCheck ==
    /\ pc = "built" /\ level = "Site"
    /\ report' = SiteCheckImport(original_tree, import_tree, report)
    /\ call' = CheckCall
    /\ pc' = "done"
    /\ UNCHANGED <<level, original_tree, import_tree>>

BuildingCheck ==
    /\ pc = "built" /\ level = "Building"
    /\ report' = BuildingCheckImport(original_tree, import_tree, report)
    /\ call' = CheckCall
    /\ pc' = "done"
    /\ UNCHANGED <<level, original_tree, import_tree>>

StoreyCheck ==
    /\ pc = "built" /\ level = "Storey"
    /\ report' = StoreyCheckImport(original_tree, import_tree, report)
    /\ call' = CheckCall
    /\ pc' = "done"
    /\ UNCHANGED <<level, original_tree, import_tree>>

Next == ProjectCheck \/ SiteCheck \/ BuildingCheck \/ StoreyCheck

Spec == Init /\ [][Next]_vars

----------------------------------------------------------------------------
(* Vocabulary of the properties.                                           *)

Done == pc = "done"

ChildrenOf(lvl, node) ==
    CASE lvl = "Project" -> node.sites
      [] lvl = "Site" -> node.buildings
      [] lvl = "Building" -> node.storeys
      [] lvl = "Storey" -> node.components

ChildLevel(lvl) ==
    CASE lvl = "Project" -> "Site"
      [] lvl = "Site" -> "Building"
      [] lvl = "Building" -> "Storey"

CheckImport(lvl, self, other, r) ==
    CASE lvl = "Project" -> ProjectCheckImport(self, other, r)
      [] lvl = "Site" -> SiteCheckImport(self, other, r)
      [] lvl = "Building" -> BuildingCheckImport(self, other, r)
      [] lvl = "Storey" -> StoreyCheckImport(self, other, r)

Build(lvl, entity) ==
    CASE lvl = "Project" -> Project(entity, "Project")
      [] lvl = "Site" -> Site(entity, "Site")
      [] lvl = "Building" -> Building(entity, "Building")
      [] lvl = "Storey" -> Storey(entity, entity.Name)

GuidsOf(nodes) == {nodes[i].guid : i \in 1..Len(nodes)}

(* how many records of the sequence carry the identity *)
Count(records, guid) ==
    Cardinality({i \in 1..Len(records) : records[i].guid = guid})

(* the last child with the identity: the one the identity index keeps *)
ChildWith(nodes, guid) ==
    nodes[CHOOSE i \in 1..Len(nodes) :
              /\ nodes[i].guid = guid
              /\ \A j \in (i + 1)..Len(nodes) : nodes[j].guid # guid]

IsInfix(part, whole) ==
    \E k \in 0..(Len(whole) - Len(part)) :
        \A i \in 1..Len(part) : whole[k + i] = part[i]

OriginalChildren == ChildrenOf(level, original_tree)
ImportChildren == ChildrenOf(level, import_tree)
OnlyOriginal == GuidsOf(OriginalChildren) \ GuidsOf(ImportChildren)
OnlyImport == GuidsOf(ImportChildren) \ GuidsOf(OriginalChildren)
InBoth == GuidsOf(OriginalChildren) \cap GuidsOf(ImportChildren)

(* the entities directly below an entity, and the types the entities of a *)
(* tree with a given identity have                                        *)
ChildEntities(entity) ==
    RelatedOf(entity.IsDecomposedBy) \o RelatedOf(entity.ContainsElements)

RECURSIVE TypesOf(_, _)
TypesOf(entity, guid) ==
    (IF entity.GlobalId = guid THEN {entity.type} ELSE {}) \cup
    UNION {TypesOf(ChildEntities(entity)[i], guid) :
               i \in 1..Len(ChildEntities(entity))}

----------------------------------------------------------------------------
(* C1: when the two nodes of a call have different identities, the report *)
(* holds exactly one Deletion with original's identity, exactly one       *)
(* Addition with candidate's identity, and nothing for any descendant.    *)
C1_MismatchShortCircuit ==
    (Done /\ original_tree.guid # import_tree.guid) =>
        /\ Len(report.deletions) = 1
        /\ report.deletions[1].guid = original_tree.guid
        /\ Len(report.additions) = 1
        /\ report.additions[1].guid = import_tree.guid

(* C2: a leaf element present with the same identity under a matched      *)
(* Storey in both trees, whose property sets differ, is reported as a     *)
(* Modification (a Deletion and an Addition with its identity).           *)
C2_LeafPropertyComparison ==
    (Done /\ level = "Storey" /\ original_tree.guid = import_tree.guid) =>
        \A g \in InBoth :
            ChildWith(OriginalChildren, g).psets # ChildWith(ImportChildren, g).psets
            => /\ Count(report.deletions, g) >= 1
               /\ Count(report.additions, g) >= 1

(* C3: for a pair compared with equal identity, at every level, a child   *)
(* identity only among original's children yields exactly one Deletion    *)
(* and no Addition, one only among candidate's children exactly one       *)
(* Addition and no Deletion, and one present in both is compared as a     *)
(* pair: the records of comparing the two children are in the report (for *)
(* two leaf elements, a Modification exactly when their names differ),    *)
(* and no other record carries the child's identity.                      *)
C3_PairCompared(g) ==
    LET a == ChildWith(OriginalChildren, g)
        b == ChildWith(ImportChildren, g)
    IN  IF level = "Storey"
        THEN /\ Count(report.deletions, g) = (IF a.name # b.name THEN 1 ELSE 0)
             /\ Count(report.additions, g) = (IF a.name # b.name THEN 1 ELSE 0)
        ELSE LET sub == CheckImport(ChildLevel(level), a, b, EmptyReport)
             IN  /\ IsInfix(sub.deletions, report.deletions)
                 /\ IsInfix(sub.additions, report.additions)
                 /\ Count(report.deletions, g) = Count(sub.deletions, g)
                 /\ Count(report.additions, g) = Count(sub.additions, g)

C3_ChildSetReconciliation ==
    (Done /\ original_tree.guid = import_tree.guid) =>
        /\ \A g \in OnlyOriginal :
              Count(report.deletions, g) = 1 /\ Count(report.additions, g) = 0
        /\ \A g \in OnlyImport :
              Count(report.additions, g) = 1 /\ Count(report.deletions, g) = 0
        /\ \A g \in InBoth : C3_PairCompared(g)

C3_Witness ==
    /\ Done /\ level = "Building" /\ original_tree.guid = import_tree.guid
    /\ OnlyOriginal # {}
    /\ \E g \in InBoth :
          /\ ChildWith(OriginalChildren, g).name # ChildWith(ImportChildren, g).name
          /\ GuidsOf(ChildWith(ImportChildren, g).components)
                 \ GuidsOf(ChildWith(OriginalChildren, g).components) # {}

(* C4: compare(T, T) leaves the report empty. *)
C4_Idempotence ==
    (Done /\ original_tree = import_tree) => report = EmptyReport

C4_Witness ==
    /\ Done /\ original_tree = import_tree /\ level = "Project"
    /\ \E i \in 1..Len(original_tree.sites) :
       \E j \in 1..Len(original_tree.sites[i].buildings) :
       \E k \in 1..Len(original_tree.sites[i].buildings[j].storeys) :
           original_tree.sites[i].buildings[j].storeys[k].components # <<>>

(* C5: for a pair compared with equal identity, at any level, a different *)
(* display name of the source entities yields a Modification with that    *)
(* identity.                                                              *)
C5_AttributeCheck ==
    (/\ Done /\ original_tree.guid = import_tree.guid
     /\ original_tree.entity_instance.Name # import_tree.entity_instance.Name) =>
        /\ Count(report.deletions, original_tree.guid) >= 1
        /\ Count(report.additions, original_tree.guid) >= 1

(* C8: every Deletion carries the kind of the node of the original tree   *)
(* with its identity, every Addition the kind of the node of the          *)
(* candidate tree with its identity.                                      *)
C8_RecordKind ==
    Done =>
        /\ \A i \in 1..Len(report.deletions) :
              report.deletions[i].entity_type \in
                  TypesOf(original_tree.entity_instance, report.deletions[i].guid)
        /\ \A i \in 1..Len(report.additions) :
              report.additions[i].entity_type \in
                  TypesOf(import_tree.entity_instance, report.additions[i].guid)

----------------------------------------------------------------------------
(* Reorderings of an input: the same entities with the related objects of *)
(* every relation, at every depth, in any order.                          *)

(* the sequences that take their i-th element from the i-th set *)
RECURSIVE ChoiceSeqs(_)
ChoiceSeqs(sets) ==
    IF sets = <<>> THEN {<<>>}
    ELSE {<<x>> \o rest : x \in Head(sets), rest \in ChoiceSeqs(Tail(sets))}

RECURSIVE Reorderings(_)
ReorderedSeqs(entities) ==
    UNION {ChoiceSeqs([i \in 1..Len(entities) |-> Reorderings(entities[p[i]])]) :
               p \in Permutations(1..Len(entities))}

ReorderedRelations(relations) ==
    ChoiceSeqs([i \in 1..Len(relations) |->
                   {[Related |-> q] : q \in ReorderedSeqs(relations[i].Related)}])

Reorderings(entity) ==
    {[entity EXCEPT !.IsDecomposedBy = d, !.ContainsElements = c] :
        d \in ReorderedRelations(entity.IsDecomposedBy),
        c \in ReorderedRelations(entity.ContainsElements)}

(* equality of two sequences as multisets *)
SameBag(s, t) ==
    \A x \in {s[i] : i \in 1..Len(s)} \cup {t[i] : i \in 1..Len(t)} :
        Cardinality({i \in 1..Len(s) : s[i] = x}) =
        Cardinality({i \in 1..Len(t) : t[i] = x})

ReorderedReport(a, b) ==
    CheckImport(level, Build(level, a), Build(level, b), EmptyReport)

(* C6: reordering the children of any node of either tree does not change *)
(* the multiset of additions nor the multiset of deletions recorded.      *)
C6_OrderIndependence ==
    Done =>
        \A a \in Reorderings(original_tree.entity_instance) :
        \A b \in Reorderings(import_tree.entity_instance) :
            LET reordered == ReorderedReport(a, b)
            IN  /\ SameBag(reordered.additions, report.additions)
                /\ SameBag(reordered.deletions, report.deletions)

C6_Witness ==
    /\ Done
    /\ \E a \in Reorderings(original_tree.entity_instance) :
       \E b \in Reorderings(import_tree.entity_instance) :
           LET reordered == ReorderedReport(a, b)
           IN  /\ a # original_tree.entity_instance
               /\ b # import_tree.entity_instance
               /\ reordered.additions # report.additions
               /\ reordered.deletions # report.deletions

(* Two inputs that differ only by entities present in one and absent from *)
(* the other: entities matched by identity carry the same name, type and  *)
(* property definitions, all the way down.                                *)
RECURSIVE PureAddDel(_, _)
PureAddDel(a, b) ==
    /\ a.GlobalId = b.GlobalId
    /\ a.Name = b.Name
    /\ a.type = b.type
    /\ a.IsDefinedBy = b.IsDefinedBy
    /\ \A i \in 1..Len(ChildEntities(a)) : \A j \in 1..Len(ChildEntities(b)) :
          ChildEntities(a)[i].GlobalId = ChildEntities(b)[j].GlobalId
          => PureAddDel(ChildEntities(a)[i], ChildEntities(b)[j])

Swapped == CheckImport(level, import_tree, original_tree, EmptyReport)

(* C7: for two trees that differ only by nodes present in one and absent  *)
(* from the other, the identities added by compare(A, B) are the          *)
(* identities deleted by compare(B, A), and the other way round.          *)
C7_Orientation ==
    (Done /\ PureAddDel(original_tree.entity_instance, import_tree.entity_instance)) =>
        /\ GuidsOf(report.additions) = GuidsOf(Swapped.deletions)
        /\ GuidsOf(report.deletions) = GuidsOf(Swapped.additions)

C7_Witness ==
    /\ Done
    /\ PureAddDel(original_tree.entity_instance, import_tree.entity_instance)
    /\ report.additions # <<>>
    /\ report.deletions # <<>>
    /\ GuidsOf(report.additions) # GuidsOf(report.deletions)

----------------------------------------------------------------------------
(* The ComparisonReport on its own: any sequence of add_addition,         *)
(* add_deletion and add_modification calls, call being the last one.      *)

ReportGuids == {"G1", "G2"}
ReportTypes == {"IfcWall"}
ReportMessages == {NoMessage, NameMessage("a")}

InitReport ==
    /\ pc = "report"
    /\ level = "Report"
    /\ original_tree = None
    /\ import_tree = None
    /\ report = EmptyReport
    /\ call = NoCall

AddAddition ==
    /\ pc = "report"
    /\ Len(report.additions) < MaxRecords
    /\ \E g \in ReportGuids, t \in ReportTypes, m \in ReportMessages :
          /\ report' = add_addition(report, g, t, m)
          /\ call' = [op |-> "add_addition", guid |-> g, entity_type |-> t, msg |-> m]
    /\ UNCHANGED <<level, original_tree, import_tree, pc>>

AddDeletion ==
    /\ pc = "report"
    /\ Len(report.deletions) < MaxRecords
    /\ \E g \in ReportGuids, t \in ReportTypes, m \in ReportMessages :
          /\ report' = add_deletion(report, g, t, m)
          /\ call' = [op |-> "add_deletion", guid |-> g, entity_type |-> t, msg |-> m]
    /\ UNCHANGED <<level, original_tree, import_tree, pc>>

AddModification ==
    /\ pc = "report"
    /\ Len(report.additions) < MaxRecords
    /\ Len(report.deletions) < MaxRecords
    /\ \E g \in ReportGuids, t \in ReportTypes, m \in ReportMessages :
          /\ report' = add_modification(report, g, t, m)
          /\ call' = [op |-> "add_modification", guid |-> g, entity_type |-> t,
                      msg |-> m]
    /\ UNCHANGED <<level, original_tree, import_tree, pc>>

NextReport == AddAddition \/ AddDeletion \/ AddModification

SpecReport == InitReport /\ [][NextReport]_vars

(* C9: in any report state, add_modification(id, kind, detail) appends    *)
(* exactly one record to the end of the deletions and one to the end of   *)
(* the additions, both with that identity, kind and detail, and leaves    *)
(* the records already present unchanged and in order: the effect of      *)
(* add_deletion followed by add_addition.                                 *)
C9_ModificationComposes ==
    [][call'.op = "add_modification" =>
          LET record == [guid |-> call'.guid, entity_type |-> call'.entity_type,
                         message |-> call'.msg]
          IN  /\ report'.deletions = report.deletions \o <<record>>
              /\ report'.additions = report.additions \o <<record>>]_vars

C9_Witness ==
    /\ pc = "report"
    /\ call.op = "add_modification"
    /\ call.msg # NoMessage
    /\ Len(report.additions) = 2
    /\ Len(report.deletions) = 2
    /\ report.additions[1] # report.additions[2]
    /\ report.deletions[1] # report.deletions[2]

----------------------------------------------------------------------------
(* The Tree Builder on a storey: Storey.__init__ of an entity whose       *)
(* contained elements are of catalogue types and of other types.          *)

BuildInputs ==
    StoreySet({"T1"}, {"a"},
        DistinctSeqs(
            ElementSet({"G1", "G2"}, Names,
                       {"IfcWall", "IfcDoor", "IfcFlowSegment", "IfcFurnishingElement"},
                       {3}),
            MaxElems))

InitBuild ==
    /\ pc = "start"
    /\ level = "Storey"
    /\ original_tree = None
    /\ import_tree = None
    /\ report = EmptyReport
    /\ \E e \in BuildInputs : call = [op |-> "Storey", entity |-> e]

BuildStorey ==
    /\ pc = "start"
    /\ original_tree' = Storey(call.entity, call.entity.Name)
    /\ pc' = "built"
    /\ UNCHANGED <<level, import_tree, report, call>>

NextBuild == BuildStorey

SpecBuild == InitBuild /\ [][NextBuild]_vars

Catalogue == {ALLOWED_TYPES[i] : i \in 1..Len(ALLOWED_TYPES)}

(* C10: a built Storey has exactly one leaf node for each contained       *)
(* element whose type is in the catalogue of leaf kinds, and none for an  *)
(* element whose type is outside it.                                      *)
C10_LeafFiltering ==
    pc = "built" =>
        \A i \in 1..Len(RelatedOf(original_tree.entity_instance.ContainsElements)) :
            LET element == RelatedOf(original_tree.entity_instance.ContainsElements)[i]
            IN  Count(original_tree.components, element.GlobalId) =
                    (IF element.type \in Catalogue THEN 1 ELSE 0)

====
